---- MODULE Spec2Model ----
(***************************************************************************)
(* A model of BadgeGenerator.py: the badge renderer (generate_badge), the  *)
(* interactive path (create_side_frame.generate), the batch orchestrator   *)
(* (batch_generate_badges.task and its process_row workers), the error log *)
(* (write_errors_to_log), the notification queue (gui_queue, drained by   *)
(* create_gui.process_gui_queue), the compositor (generate_badge_pdf) and  *)
(* the string helpers (sanitize_filename, clean_employee_id).              *)
(*                                                                         *)
(* Python strings whose characters matter (names, employee numbers, file   *)
(* names) are sequences of one-character strings; dicts are functions from *)
(* key strings to values; messages are records holding the values that the *)
(* f-strings of the source interpolate.                                    *)
(***************************************************************************)
EXTENDS Integers, Sequences, FiniteSets, TLC

VARIABLES
    files,          \* names of the image files present in OUTPUT_FOLDER
    gui_queue,      \* gui_queue: notifications waiting for the control thread
    shown,          \* notifications executed by the latest drain, in order
    clicks,         \* clicks on a Generate button so far
    threads,        \* interactive render threads started and not yet run
    last,           \* outcome of the most recent interactive generate_badge
    log,            \* content of the error log file (a sequence of lines)
    log_dir,        \* os.path.dirname(error_log_path), from config.json
    runs,           \* batch runs started so far
    taskpc,         \* position of the batch task thread
    df,             \* the data frame read by the running batch
    preset_name,    \* preset selected when the batch checked it
    duplicates,     \* task-local `duplicates`, in order of first appearance
    errors,         \* task-local `errors`
    errors_lock,    \* holder of errors_lock: a row index, or 0 when free
    rowpc,          \* per row: position of its process_row future
    pending,        \* per row: the error entries it appends (none or one)
    written,        \* per row: the files its renders saved in this run
    outcome,        \* what the task thread did when it ended
    preset_store,   \* the module-level `presets` dict shared by every render
    folder_exists,  \* whether badge_folder exists
    listing,        \* the compositor's locals: the listing of badge_folder, the dicts, all_keys
    pdfpc,          \* position of generate_badge_pdf
    pdf,            \* pages of the FPDF object: per page its slots, in order
    document,       \* the file written by pdf.output, or NoDocument
    call            \* a call of one of the two string helpers and its result

vars == <<files, gui_queue, shown, clicks, threads, last, log, log_dir, runs, taskpc, df,
          preset_name, duplicates, errors, errors_lock, rowpc, pending, written,
          outcome, preset_store, folder_exists, listing, pdfpc, pdf, document, call>>

pdfVars == <<folder_exists, listing, pdfpc, pdf, document>>

batchVars == <<runs, taskpc, df, preset_name, duplicates, errors,
               errors_lock, rowpc, pending, written, outcome>>

(***************************************************************************)
(* Bounds of the model.                                                    *)
(***************************************************************************)
MaxNameLen == 4     \* longest text typed into the Name entry
MaxClicks == 1      \* clicks on a Generate button in one session
MaxRows == 2        \* rows of a spreadsheet built from RowPool
MaxRuns == 2        \* batch runs in a row (SpecRuns)

(***************************************************************************)
(* Program constants.                                                      *)
(***************************************************************************)
DefaultCharLimit == 10   \* data.get('name_char_limit', 10)
MaxWorkers == 5          \* ThreadPoolExecutor(max_workers=5)
RowOffset == 2           \* f"Row {index + 2}"

(***************************************************************************)
(* Strings.                                                                *)
(***************************************************************************)
Whitespace == {" "}
Digits == {"0", "1", "2", "3", "4", "5", "6", "7", "8", "9"}

\* str.strip(): drop leading and trailing whitespace
Strip(s) ==
    LET keep == {i \in 1..Len(s) : s[i] \notin Whitespace}
    IN  IF keep = {} THEN <<>>
        ELSE LET lo == CHOOSE i \in keep : \A j \in keep : i <= j
                 hi == CHOOSE i \in keep : \A j \in keep : j <= i
             IN  SubSeq(s, lo, hi)

\* str.upper() on the characters the entries can hold
Upper(s) ==
    [i \in 1..Len(s) |-> CASE s[i] = "a" -> "A"
                           [] s[i] = "b" -> "B"
                           [] OTHER -> s[i]]

\* str.isdigit(): non-empty and all digits
IsDigit(s) == Len(s) > 0 /\ \A i \in 1..Len(s) : s[i] \in Digits

EndsWith(s, suffix) ==
    /\ Len(s) >= Len(suffix)
    /\ SubSeq(s, Len(s) - Len(suffix) + 1, Len(s)) = suffix

StartsWith(s, prefix) ==
    /\ Len(s) >= Len(prefix)
    /\ SubSeq(s, 1, Len(prefix)) = prefix

HasSpace(s) == \E i \in 1..Len(s) : s[i] = " "

\* ' ' in name, name.split(' ', 1): the parts around the first space
FirstSpace(s) == CHOOSE i \in 1..Len(s) : s[i] = " " /\ \A j \in 1..(i - 1) : s[j] # " "
LastSpace(s) == CHOOSE i \in 1..Len(s) : s[i] = " " /\ \A j \in (i + 1)..Len(s) : s[j] # " "
SplitAt(s, i) == <<SubSeq(s, 1, i - 1), SubSeq(s, i + 1, Len(s))>>
SplitLast(s) == SplitAt(s, LastSpace(s))
SplitName(s) == SplitAt(s, FirstSpace(s))

\* filename.replace(char, '_')
Delete(s, char) == SelectSeq(s, LAMBDA c : c # char)
Replace(s, char) == [i \in 1..Len(s) |-> IF s[i] = char THEN "_" ELSE s[i]]

illegal_chars == <<"<", ">", ":", "\"", "/", "\\", "|", "?", "*">>

RECURSIVE ReplaceAll(_, _, _)
ReplaceAll(s, chars, k) ==
    IF k > Len(chars) THEN s
    ELSE CHOOSE result \in {ReplaceAll(replaced, chars, k + 1) :
                                replaced \in {Replace(s, chars[k])}} : TRUE

sanitize_filename(filename) == ReplaceAll(filename, illegal_chars, 1)

DropPointZero(employee_id) ==
    IF EndsWith(employee_id, <<".", "0">>)
    THEN SubSeq(employee_id, 1, Len(employee_id) - 2)
    ELSE employee_id

clean_employee_id(employee_id) ==
    IF EndsWith(employee_id, <<".", "0">>)
       /\ IsDigit(SubSeq(employee_id, 1, Len(employee_id) - 2))
    THEN SubSeq(employee_id, 1, Len(employee_id) - 2)
    ELSE employee_id

(***************************************************************************)
(* Dicts.                                                                  *)
(***************************************************************************)
Get(d, k, default) == IF k \in DOMAIN d THEN d[k] ELSE default

\* d.update(e): the keys of e win
Update(d, e) == [k \in (DOMAIN d) \cup (DOMAIN e) |-> IF k \in DOMAIN e THEN e[k] ELSE d[k]]

Without(d, keys) == [k \in (DOMAIN d) \ keys |-> d[k]]

(***************************************************************************)
(* Presets (config.json, read by create_gui).  A side template is a dict;  *)
(* the values stand for paths, sizes and positions, only their presence is *)
(* read by the renderer.  `standard` leaves name_char_limit to its default *)
(* and `compact` sets it; the back template of `compact` has no font for   *)
(* first_name.                                                             *)
(***************************************************************************)
FullTemplate ==
    [background_img |-> "bg.png", name_char_limit |-> 2,
     photo_size |-> <<1, 1>>, photo_position |-> <<0, 0>>,
     font_name |-> "a.ttf", name_size |-> 12,
     font_first_name |-> "a.ttf", first_name_size |-> 12,
     font_last_name |-> "a.ttf", last_name_size |-> 12,
     font_id |-> "a.ttf", id_size |-> 12,
     font_department |-> "a.ttf", department_size |-> 12,
     font_position |-> "a.ttf", position_size |-> 12]

presets ==
    [standard |-> [front |-> Without(FullTemplate, {"name_char_limit"}),
                   back |-> Without(FullTemplate, {"name_char_limit"})],
     compact |-> [front |-> FullTemplate,
                  back |-> Without(FullTemplate, {"font_first_name"})]]

PresetNames == DOMAIN presets
Sides == {"front", "back"}

FontKey == [name |-> "font_name", first_name |-> "font_first_name",
            last_name |-> "font_last_name", id |-> "font_id",
            department |-> "font_department", position |-> "font_position"]
SizeKey == [name |-> "name_size", first_name |-> "first_name_size",
            last_name |-> "last_name_size", id |-> "id_size",
            department |-> "department_size", position |-> "position_size"]

(***************************************************************************)
(* generate_badge.  `env` says which of the calls into the image library   *)
(* or the file system fails in this render: "ok" (none), "background"      *)
(* (Image.open of the background), "photo" (Image.open/resize/paste of the *)
(* photo), "font" (ImageFont.truetype raises IOError), "save" (img.save).  *)
(***************************************************************************)
EnvOutcomes == {"ok", "background", "photo", "font", "save"}

PlainElements == <<"name", "id", "department", "position">>
SplitElements == <<"first_name", "last_name", "id", "department", "position">>

\* len(name) > char_limit
ExceedsAlso(name, char_limit) == Len(name) >= char_limit
Exceeds(name, char_limit) == Len(name) > char_limit

\* lines 83-106: the data after the name handling (left as it is when the
\* name is too long and has no space)
NameHandling(data) ==
    LET name == Get(data, "name", <<>>)
        char_limit == Get(data, "name_char_limit", DefaultCharLimit)
    IN  IF Exceeds(name, char_limit)
        THEN IF HasSpace(name)
             THEN Update(data, [first_name |-> SplitName(name)[1],
                                last_name |-> SplitName(name)[2],
                                text_elements |-> SplitElements])
             ELSE data
        ELSE Update(data, [text_elements |-> PlainElements])

NameTooLong(data) ==
    LET name == Get(data, "name", <<>>)
        char_limit == Get(data, "name_char_limit", DefaultCharLimit)
    IN  Exceeds(name, char_limit) /\ ~HasSpace(name)

\* lines 137-152: the first text element whose font cannot be built, and how:
\* data[f'font_{key}'] or data[f'{key}_size'] raises KeyError before truetype
\* is called for that key, truetype raises IOError
FontFailure(data, env) ==
    LET els == data["text_elements"]
        lacks(k) == FontKey[els[k]] \notin DOMAIN data \/ SizeKey[els[k]] \notin DOMAIN data
    IN  IF env = "font"
        THEN IF lacks(1) THEN "KeyError" ELSE "font"
        ELSE IF \E k \in 1..Len(els) : lacks(k) THEN "KeyError" ELSE "none"

\* the step at which the render stops: "none" when it runs to its end
Failure(side, data, env) ==
    LET d == NameHandling(data)
        photo == side = "front" /\ Get(d, "photo_img", <<>>) # <<>>
    IN  IF NameTooLong(data) THEN "name"
        ELSE IF "background_img" \notin DOMAIN d \/ env = "background" THEN "background"
        ELSE IF photo /\ ({"photo_size", "photo_position"} \ DOMAIN d # {} \/ env = "photo")
             THEN "photo"
        ELSE IF FontFailure(d, env) # "none" THEN FontFailure(d, env)
        ELSE IF env = "save" THEN "save"
        ELSE "none"

\* the failures generate_badge has a handler for (lines 95-102, 112-118,
\* 126-132, 146-152); KeyError in the font block and a failing save have none
Handled == {"name", "background", "photo", "font"}

badge_ == <<"b", "a", "d", "g", "e", "_">>
png == <<".", "p", "n", "g">>
SideChars == [front |-> <<"f", "r", "o", "n", "t">>, back |-> <<"b", "a", "c", "k">>]
No == <<"N", "o", ".">>

\* lines 162-166
WholeId(side, data) ==
    badge_ \o SideChars[side] \o <<"_">> \o sanitize_filename(Get(data, "id", <<>>)) \o png
output_filename(side, data) ==
    LET employee_id == Get(data, "id", <<>>)
        name_for_filename ==
            IF StartsWith(employee_id, No)
            THEN SubSeq(employee_id, 5, Len(employee_id))
            ELSE employee_id
    IN  badge_ \o SideChars[side] \o <<"_">> \o sanitize_filename(name_for_filename) \o png

\* the files one call writes: img.save is reached only when nothing failed
SavedEarly(side, data, failure) ==
    IF failure \in {"none", "font", "KeyError"}
    THEN {output_filename(side, NameHandling(data))} ELSE {}
Saved(side, data, failure) ==
    IF failure = "none" THEN {output_filename(side, NameHandling(data))} ELSE {}

Note(kind, title, text) == [kind |-> kind, title |-> title, text |-> text]

\* the notifications one call queues
Puts(side, data, suppress_message, failure) ==
    IF suppress_message THEN <<>>
    ELSE IF failure = "none"
         THEN <<Note("showinfo", "Success", <<side, output_filename(side, NameHandling(data))>>)>>
         ELSE IF failure \in Handled
              THEN <<Note("showerror", "Error", <<failure>>)>>
              ELSE <<>>

\* whether the call ends by an exception reaching its caller
Raises(suppress_message, failure) ==
    /\ failure # "none"
    /\ failure \in Handled => suppress_message

generate_badge(side, data, suppress_message, env) ==
    LET failure == Failure(side, data, env)
    IN  [data |-> NameHandling(data),
         failure |-> failure,
         saved |-> Saved(side, data, failure),
         put |-> Puts(side, data, suppress_message, failure),
         raised |-> Raises(suppress_message, failure)]

(***************************************************************************)
(* The interactive path: create_side_frame.generate starts one thread per  *)
(* click, the thread runs generate_badge(side, data) with messages on.     *)
(***************************************************************************)
NameChars == {"a", " "}
NameTexts ==
    UNION {[1..n -> NameChars] : n \in 0..MaxNameLen}
    \cup {<<"J", "o", "n", "a", "t", "h", "a", "n", " ", "S", "m", "i", "t", "h">>,
          <<"J", "o", "n", "a", "t", "h", "a", "n", "s", "m", "i", "t", "h">>}
IdTexts == {<<" ", "a", "/", "7">>}
PhotoTexts == {<<>>, <<"p">>}
Entries ==
    [name : NameTexts, id : IdTexts, department : {<<"D">>}, position : {<<"P", " ">>},
     photo_img : PhotoTexts]

\* lines 347-360: the record handed to the thread
generate_data(side, selected_preset, entries) ==
    LET data == Update(preset_store[selected_preset][side],
                       [name |-> Strip(entries.name),
                        id |-> No \o <<" ">> \o Upper(Strip(entries.id)),
                        department |-> Strip(entries.department),
                        position |-> Strip(entries.position)])
    IN  IF side = "front"
        THEN Update(data, [photo_img |-> Strip(entries.photo_img)])
        ELSE data

(***************************************************************************)
(* The spreadsheet.  A cell holds text, or NaN where the cell is empty.    *)
(***************************************************************************)
NaN == <<"NaN">>

required_columns ==
    <<"Local Name", "English Name", "Employee Number", "Department", "Position",
      "Department_en", "Position_en">>
Range(seq) == {seq[i] : i \in DOMAIN seq}

\* the members of a set of integers in ascending order
Ascending(S) ==
    [i \in 1..Cardinality(S) |-> CHOOSE k \in S : Cardinality({j \in S : j < k}) = i - 1]

\* [x for x in seq if keep(x)], for a set `keep` of positions
Filter(seq, keep) == [i \in 1..Cardinality(keep) |-> seq[Ascending(keep)[i]]]

\* line 404
FirstMissingColumn(columns) ==
    LET all == Filter(required_columns, {i \in DOMAIN required_columns : required_columns[i] \notin columns})
    IN  IF all = <<>> THEN <<>> ELSE <<all[1]>>
missing_columns(columns) ==
    Filter(required_columns, {i \in DOMAIN required_columns : required_columns[i] \notin columns})

\* Series.astype(str)
astype_str(value) == IF value = NaN THEN <<"n", "a", "n">> ELSE value

\* lines 427-428: the stripped numbers that occur in more than one row
Duplicates(rows) ==
    LET employee_numbers == [k \in DOMAIN rows |-> Strip(astype_str(rows[k]["Employee Number"]))]
        first == {k \in DOMAIN rows :
                     /\ \E j \in DOMAIN rows : j # k /\ employee_numbers[j] = employee_numbers[k]
                     /\ \A j \in 1..(k - 1) : employee_numbers[j] # employee_numbers[k]}
    IN  Filter(employee_numbers, first)

\* lines 434-435
is_missing(value) == value = NaN \/ Strip(value) = <<>>

\* lines 450-464
FirstMissingField(row) ==
    LET all == Filter(required_columns, {i \in DOMAIN required_columns : is_missing(row[required_columns[i]])})
    IN  IF all = <<>> THEN <<>> ELSE <<all[1]>>
missing_fields(row) ==
    Filter(required_columns, {i \in DOMAIN required_columns : is_missing(row[required_columns[i]])})

RowNumber(index) == index + RowOffset

Entry(kind, index, id, what) ==
    [kind |-> kind, row |-> RowNumber(index), id |-> id, what |-> what]

\* line 430: the batch-wide message, which names no row
DuplicateMessage(dups) == [kind |-> "duplicates", row |-> 0, id |-> <<>>, what |-> dups]

\* lines 491-498, 502-509: the record handed to generate_badge
batch_data(side, selected, row, employee_id) ==
    LET own == IF side = "front"
               THEN [name |-> Strip(row["Local Name"]),
                     id |-> No \o <<" ">> \o employee_id,
                     department |-> Strip(row["Department"]),
                     position |-> Strip(row["Position"])]
               ELSE [name |-> Strip(row["English Name"]),
                     id |-> No \o <<" ">> \o employee_id,
                     department |-> Strip(row["Department_en"]),
                     position |-> Strip(row["Position_en"])]
    IN  Update(own, preset_store[selected][side])

\* lines 512-515: what the handler of process_row appends
NoEntry(index, employee_id, failure) == <<>>
exception_entries(index, employee_id, failure) ==
    <<Entry("failed", index, employee_id, <<failure>>)>>

\* lines 440-488: the entries a row appends before any render, none if it is valid
validation_entries(index, row, dups) ==
    LET employee_id == clean_employee_id(Strip(astype_str(row["Employee Number"])))
    IN  IF missing_fields(row) # <<>>
        THEN <<Entry("missing", index, <<>>, missing_fields(row))>>
        ELSE IF \E i \in DOMAIN dups : dups[i] = employee_id
             THEN <<Entry("duplicated", index, employee_id, <<>>)>>
             ELSE <<>>

(***************************************************************************)
(* write_errors_to_log: os.makedirs(os.path.dirname(path)) raises when the *)
(* configured path has no directory part, and the handler then queues a    *)
(* notification and leaves the file alone.                                 *)
(***************************************************************************)
AppendToFile(old, lines) == old \o lines
Overwrite(old, lines) == lines

write_errors_to_log(errs, dir, old) ==
    IF dir = ""
    THEN [log |-> old, wrote |-> FALSE,
          put |-> <<Note("showerror", "Error", <<"Failed to write to error log">>)>>]
    ELSE [log |-> Overwrite(old, errs), wrote |-> TRUE, put |-> <<>>]

NoOutcome == [path |-> "none", wrote |-> FALSE, puts |-> <<>>, messages |-> <<>>]

(***************************************************************************)
(* The spreadsheets the model reads.  One-row sheets range over every      *)
(* combination of the cell values below; sheets of two and more rows are   *)
(* built from RowPool.                                                     *)
(***************************************************************************)
Row(ln, en, id, d, p, de, pe) ==
    ("Local Name" :> ln) @@ ("English Name" :> en) @@ ("Employee Number" :> id)
    @@ ("Department" :> d) @@ ("Position" :> p)
    @@ ("Department_en" :> de) @@ ("Position_en" :> pe)

Sheet(rows) == [readable |-> TRUE, columns |-> Range(required_columns), rows |-> rows]
NoSheet == [readable |-> FALSE, columns |-> {}, rows |-> <<>>]

\* the sheet without some of its columns
DropColumns(sheet, cols) ==
    [readable |-> TRUE, columns |-> sheet.columns \ cols,
     rows |-> [k \in DOMAIN sheet.rows |-> Without(sheet.rows[k], cols)]]

Jonathansmith == <<"J", "o", "n", "a", "t", "h", "a", "n", "s", "m", "i", "t", "h">>

FullRows ==
    {Row(ln, en, id, d, p, de, pe) :
        ln \in {NaN, <<"a", "b">>, <<"a", " ", "b">>, <<"a", "b", "c">>},
        en \in {<<" ">>, <<"a", "b">>, <<"a", " ", "b">>, <<"a", "b", "c">>},
        id \in {NaN, <<" ">>, <<"7">>, <<"7", ".", "0">>, <<" ", "7">>, <<"a", "/", "7">>},
        d \in {NaN, <<" ">>, <<"D">>},
        p \in {NaN, <<"P">>}, de \in {NaN, <<"D">>}, pe \in {NaN, <<"P">>}}

GoodRow(id) == Row(<<"a", "b">>, <<"a", "b">>, id, <<"D">>, <<"P">>, <<"D">>, <<"P">>)

RowPool ==
    {GoodRow(<<"7">>), GoodRow(<<"7", ".", "0">>), GoodRow(<<"8", " ">>),
     Row(Jonathansmith, NaN, <<"8">>, <<"D">>, <<"P">>, <<"D">>, <<" ">>)}

ColumnSets == {{"Position_en"}, {"Local Name", "Department"}, Range(required_columns)}

Sheets ==
    {NoSheet, Sheet(<<>>)}
    \cup {Sheet(<<r>>) : r \in FullRows}
    \cup UNION {{Sheet(rows) : rows \in [1..n -> RowPool]} : n \in 2..MaxRows}
    \cup {DropColumns(Sheet(<<GoodRow(<<"7">>)>>), cols) : cols \in ColumnSets}

SmallSheets ==
    {NoSheet,
     Sheet(<<GoodRow(<<"7">>)>>),
     Sheet(<<GoodRow(<<"8">>), Row(<<"a", "b">>, NaN, <<"9">>, <<"D">>, <<"P">>, <<"D">>, <<" ">>)>>),
     DropColumns(Sheet(<<GoodRow(<<"7">>)>>), {"Position_en"})}

NoDocument == [written |-> FALSE, pages |-> <<>>]
NoCall == [op |-> "none", arg |-> <<>>, results |-> <<>>]
NoLocals == [files |-> <<>>, front_files_dict |-> <<>>, back_files_dict |-> <<>>,
             all_keys |-> <<>>]

\* no compositor run and no helper call under way
Quiet ==
    /\ preset_store = presets
    /\ folder_exists = TRUE
    /\ listing = NoLocals
    /\ pdfpc = [at |-> "idle", n |-> 0]
    /\ pdf = <<>>
    /\ document = NoDocument
    /\ call = NoCall

Idle ==
    /\ runs = 0
    /\ taskpc = "idle"
    /\ df = NoSheet
    /\ preset_name = "standard"
    /\ duplicates = <<>>
    /\ errors = <<>>
    /\ errors_lock = 0
    /\ rowpc = <<>>
    /\ pending = <<>>
    /\ written = <<>>
    /\ outcome = NoOutcome

InitGui ==
    /\ files = {}
    /\ gui_queue = <<>>
    /\ shown = <<>>
    /\ clicks = 0
    /\ threads = <<>>
    /\ last = [done |-> FALSE]
    /\ log = <<>>
    /\ log_dir \in {"error_logs"}
    /\ Idle
    /\ Quiet

\* line 346: preset.copy() is a dict of its own, named <<>> here; a record
\* that was the preset itself is named by the preset's place in `presets`
NoCopy(selected_preset, side) == <<selected_preset, side>>
copy(selected_preset, side) == <<>>

\* an update of a dict is an update of the preset when the dict is the preset
Store(store, ref, data) ==
    IF ref = <<>> THEN store ELSE [store EXCEPT ![ref[1]][ref[2]] = data]

\* lines 343-363: a click on the Generate button of one side frame
generate ==
    /\ clicks < MaxClicks
    /\ clicks' = clicks + 1
    /\ \E side \in Sides, selected_preset \in PresetNames, entries \in Entries :
          LET data == generate_data(side, selected_preset, entries)
              ref == copy(selected_preset, side)
          IN  /\ threads' = Append(threads, [side |-> side, data |-> data, ref |-> ref])
              /\ preset_store' = Store(preset_store, ref, data)
    /\ UNCHANGED <<files, gui_queue, shown, last, log, log_dir>>
    /\ UNCHANGED batchVars
    /\ UNCHANGED <<pdfVars, call>>

RemoveAt(seq, k) == SubSeq(seq, 1, k - 1) \o SubSeq(seq, k + 1, Len(seq))

\* the thread started at line 363: generate_badge(side, data)
RenderThread ==
    \E k \in DOMAIN threads, env \in EnvOutcomes :
        LET t == threads[k]
            r == generate_badge(t.side, t.data, FALSE, env)
        IN  /\ threads' = RemoveAt(threads, k)
            /\ files' = files \cup r.saved
            /\ gui_queue' = gui_queue \o r.put
            /\ last' = [done |-> TRUE, side |-> t.side, input |-> t.data,
                        env |-> env, result |-> r]
            /\ preset_store' = Store(preset_store, t.ref, r.data)
            /\ UNCHANGED <<shown, clicks, log, log_dir>>
            /\ UNCHANGED batchVars
            /\ UNCHANGED <<pdfVars, call>>

\* lines 652-662: the control thread takes and runs every queued notification
NewestFirst ==
    /\ gui_queue # <<>>
    /\ shown' = [i \in DOMAIN gui_queue |-> gui_queue[Len(gui_queue) + 1 - i]]
    /\ gui_queue' = <<>>
    /\ UNCHANGED <<files, clicks, threads, last, log, log_dir>>
    /\ UNCHANGED batchVars
    /\ UNCHANGED <<preset_store, pdfVars, call>>

process_gui_queue ==
    /\ gui_queue # <<>>
    /\ shown' = gui_queue
    /\ gui_queue' = <<>>
    /\ UNCHANGED <<files, clicks, threads, last, log, log_dir>>
    /\ UNCHANGED batchVars
    /\ UNCHANGED <<preset_store, pdfVars, call>>

NextGui == generate \/ RenderThread \/ process_gui_queue

SpecGui == InitGui /\ [][NextGui]_vars

(***************************************************************************)
(* The batch path: batch_generate_badges starts the task thread; the task  *)
(* reads and checks the sheet, submits one process_row per row to a pool   *)
(* of max_workers threads, waits for all of them and reports.              *)
(***************************************************************************)
InitBatch ==
    /\ files = {}
    /\ gui_queue = <<>>
    /\ shown = <<>>
    /\ clicks = 0
    /\ threads = <<>>
    /\ last = [done |-> FALSE]
    /\ log = <<>>
    /\ log_dir \in {"error_logs", ""}
    /\ Idle
    /\ Quiet

\* lines 382-389, 545: a file is chosen and the task thread is started
batch_generate_badges(maxRuns) ==
    /\ taskpc \in {"idle", "done"}
    /\ runs < maxRuns
    /\ runs' = runs + 1
    /\ taskpc' = "read"
    /\ df' = NoSheet
    /\ duplicates' = <<>>
    /\ errors' = <<>>
    /\ errors_lock' = 0
    /\ rowpc' = <<>>
    /\ pending' = <<>>
    /\ written' = <<>>
    /\ outcome' = NoOutcome
    /\ UNCHANGED <<files, gui_queue, shown, clicks, threads, last, log, log_dir, preset_name>>
    /\ UNCHANGED <<preset_store, pdfVars, call>>

\* the task ends early: one notification, then the message goes to the log
Abort(path, text, message) ==
    LET w == write_errors_to_log(<<message>>, log_dir, log)
        puts == <<Note("showerror", "Error", text)>> \o w.put
    IN  /\ gui_queue' = gui_queue \o puts
        /\ log' = w.log
        /\ outcome' = [path |-> path, wrote |-> w.wrote, puts |-> puts,
                       messages |-> <<message>>]
        /\ taskpc' = "done"
        /\ UNCHANGED <<duplicates, errors, rowpc, pending, written>>

\* lines 390-431, 517-519: read the sheet, check columns and preset, find the
\* duplicates, submit the rows.  selected_preset_name holds the value of one
\* of the radio buttons, so line 416 finds it among the presets.
task_validate(sheets) ==
    /\ taskpc = "read"
    /\ \E sheet \in sheets, selected \in PresetNames :
          /\ df' = sheet
          /\ preset_name' = selected
          /\ IF ~sheet.readable
             THEN Abort("exception", <<"Failed to generate badges">>,
                        [kind |-> "general", row |-> 0, id |-> <<>>, what |-> <<>>])
             ELSE IF missing_columns(sheet.columns) # <<>>
             THEN Abort("missing_columns", missing_columns(sheet.columns),
                        [kind |-> "columns", row |-> 0, id |-> <<>>,
                         what |-> missing_columns(sheet.columns)])
             ELSE IF selected \notin DOMAIN preset_store
             THEN Abort("no_preset", <<selected>>,
                        [kind |-> "preset", row |-> 0, id |-> <<>>, what |-> <<selected>>])
             ELSE /\ duplicates' = Duplicates(sheet.rows)
                  /\ errors' = IF Duplicates(sheet.rows) # <<>>
                               THEN <<DuplicateMessage(Duplicates(sheet.rows))>>
                               ELSE <<>>
                  /\ rowpc' = [k \in DOMAIN sheet.rows |-> "queued"]
                  /\ pending' = [k \in DOMAIN sheet.rows |-> <<>>]
                  /\ written' = [k \in DOMAIN sheet.rows |-> {}]
                  /\ taskpc' = "waiting"
                  /\ UNCHANGED <<gui_queue, log, outcome>>
    /\ UNCHANGED <<files, shown, clicks, threads, last, log_dir, runs, errors_lock>>
    /\ UNCHANGED <<preset_store, pdfVars, call>>

Running == {k \in DOMAIN rowpc : rowpc[k] \notin {"queued", "done"}}

\* lines 438-488: a free worker takes the next submitted row and validates it
process_row(k) ==
    /\ rowpc[k] = "queued"
    /\ \A j \in 1..(k - 1) : rowpc[j] # "queued"
    /\ Cardinality(Running) < MaxWorkers
    /\ LET e == validation_entries(k - 1, df.rows[k], duplicates)
       IN  /\ pending' = [pending EXCEPT ![k] = e]
           /\ rowpc' = [rowpc EXCEPT ![k] = IF e # <<>> THEN "append" ELSE "front"]
    /\ UNCHANGED <<files, gui_queue, shown, clicks, threads, last, log, log_dir, runs,
                   taskpc, df, preset_name, duplicates, errors, errors_lock, written,
                   outcome>>
    /\ UNCHANGED <<preset_store, pdfVars, call>>

\* The batch records carry no photo, and a failing background and a failing
\* font both end in `raise Exception(error_msg)`: the batch draws one of them.
BatchEnv == {"ok", "font", "save"}

\* lines 490-515: one generate_badge call of the row, and the handler
Render(k, side, next) ==
    /\ rowpc[k] = side
    /\ \E env \in BatchEnv,
          employee_id \in {clean_employee_id(Strip(astype_str(df.rows[k]["Employee Number"])))} :
          \E data \in {batch_data(side, preset_name, df.rows[k], employee_id)} :
          \E r \in {generate_badge(side, data, TRUE, env)} :
              /\ files' = files \cup r.saved
              /\ gui_queue' = gui_queue \o r.put
              /\ written' = [written EXCEPT ![k] = @ \cup r.saved]
              /\ IF r.raised
                 THEN /\ pending' = [pending EXCEPT
                                        ![k] = exception_entries(k - 1, employee_id, r.failure)]
                      /\ rowpc' = [rowpc EXCEPT ![k] = "append"]
                 ELSE /\ pending' = pending
                      /\ rowpc' = [rowpc EXCEPT ![k] = next]
    /\ UNCHANGED <<shown, clicks, threads, last, log, log_dir, runs, taskpc, df,
                   preset_name, duplicates, errors, errors_lock, outcome>>
    /\ UNCHANGED <<preset_store, pdfVars, call>>

render_front(k) == Render(k, "front", "back")
render_back(k) == Render(k, "back", "done")

\* `with errors_lock:`
Barge(k) ==
    /\ rowpc[k] = "append"
    /\ errors_lock' = k
    /\ rowpc' = [rowpc EXCEPT ![k] = "locked"]
    /\ UNCHANGED <<files, gui_queue, shown, clicks, threads, last, log, log_dir, runs,
                   taskpc, df, preset_name, duplicates, errors, pending, written, outcome>>
    /\ UNCHANGED <<preset_store, pdfVars, call>>

acquire(k) ==
    /\ rowpc[k] = "append"
    /\ errors_lock = 0
    /\ errors_lock' = k
    /\ rowpc' = [rowpc EXCEPT ![k] = "locked"]
    /\ UNCHANGED <<files, gui_queue, shown, clicks, threads, last, log, log_dir, runs,
                   taskpc, df, preset_name, duplicates, errors, pending, written, outcome>>
    /\ UNCHANGED <<preset_store, pdfVars, call>>

\* errors.append(error_message), leaving the with block, return
KeepLock(k) ==
    /\ rowpc[k] = "locked"
    /\ errors' = errors \o pending[k]
    /\ errors_lock' = errors_lock
    /\ rowpc' = [rowpc EXCEPT ![k] = "done"]
    /\ UNCHANGED <<files, gui_queue, shown, clicks, threads, last, log, log_dir, runs,
                   taskpc, df, preset_name, duplicates, pending, written, outcome>>
    /\ UNCHANGED <<preset_store, pdfVars, call>>

append(k) ==
    /\ rowpc[k] = "locked"
    /\ errors' = errors \o pending[k]
    /\ errors_lock' = 0
    /\ rowpc' = [rowpc EXCEPT ![k] = "done"]
    /\ UNCHANGED <<files, gui_queue, shown, clicks, threads, last, log, log_dir, runs,
                   taskpc, df, preset_name, duplicates, pending, written, outcome>>
    /\ UNCHANGED <<preset_store, pdfVars, call>>

\* lines 518-521: leaving the executor's with block waits for every future
NoWait == TRUE
AllRowsFinished == \A k \in DOMAIN rowpc : rowpc[k] = "done"

FailureSummary == Note("showerror", "Batch Generation Errors", <<"check the error log">>)
SuccessSummary == Note("showinfo", "Success", <<"All badges have been successfully generated">>)

\* lines 523-536
task_finish ==
    /\ taskpc = "waiting"
    /\ AllRowsFinished
    /\ IF errors # <<>>
       THEN LET w == write_errors_to_log(errors, log_dir, log)
                puts == w.put \o <<FailureSummary>>
            IN  /\ log' = w.log
                /\ gui_queue' = gui_queue \o puts
                /\ outcome' = [path |-> "failure", wrote |-> w.wrote, puts |-> puts,
                               messages |-> errors]
       ELSE /\ log' = log
            /\ gui_queue' = gui_queue \o <<SuccessSummary>>
            /\ outcome' = [path |-> "success", wrote |-> FALSE,
                           puts |-> <<SuccessSummary>>, messages |-> <<>>]
    /\ taskpc' = "done"
    /\ UNCHANGED <<files, shown, clicks, threads, last, log_dir, runs, df, preset_name,
                   duplicates, errors, errors_lock, rowpc, pending, written>>
    /\ UNCHANGED <<preset_store, pdfVars, call>>

Next ==
    \/ batch_generate_badges(1)
    \/ task_validate(Sheets)
    \/ \E k \in DOMAIN rowpc : process_row(k)
    \/ \E k \in DOMAIN rowpc : render_front(k)
    \/ \E k \in DOMAIN rowpc : render_back(k)
    \/ \E k \in DOMAIN rowpc : acquire(k)
    \/ \E k \in DOMAIN rowpc : append(k)
    \/ task_finish
    \/ process_gui_queue

Spec == InitBatch /\ [][Next]_vars

NextRuns ==
    \/ batch_generate_badges(MaxRuns)
    \/ task_validate(SmallSheets)
    \/ \E k \in DOMAIN rowpc : process_row(k)
    \/ \E k \in DOMAIN rowpc : render_front(k)
    \/ \E k \in DOMAIN rowpc : render_back(k)
    \/ \E k \in DOMAIN rowpc : acquire(k)
    \/ \E k \in DOMAIN rowpc : append(k)
    \/ task_finish
    \/ process_gui_queue

SpecRuns == InitBatch /\ [][NextRuns]_vars

\* The task thread and the pool's workers are threads of the operating
\* system: each of them takes its next step at some time when it can.  A
\* click on the Batch Generate button and the control thread's timer are not
\* needed for a batch to end.
Fairness ==
    /\ WF_vars(task_validate(SmallSheets))
    /\ WF_vars(\E k \in DOMAIN rowpc : process_row(k))
    /\ WF_vars(\E k \in DOMAIN rowpc : render_front(k))
    /\ WF_vars(\E k \in DOMAIN rowpc : render_back(k))
    /\ WF_vars(\E k \in DOMAIN rowpc : acquire(k))
    /\ WF_vars(\E k \in DOMAIN rowpc : append(k))
    /\ WF_vars(task_finish)

NextLive ==
    \/ batch_generate_badges(1)
    \/ task_validate(SmallSheets)
    \/ \E k \in DOMAIN rowpc : process_row(k)
    \/ \E k \in DOMAIN rowpc : render_front(k)
    \/ \E k \in DOMAIN rowpc : render_back(k)
    \/ \E k \in DOMAIN rowpc : acquire(k)
    \/ \E k \in DOMAIN rowpc : append(k)
    \/ task_finish
    \/ process_gui_queue

SpecLive == InitBatch /\ [][NextLive]_vars /\ Fairness

(***************************************************************************)
(* The compositor: generate_badge_pdf, run by the thread that              *)
(* generate_pdf_action starts.                                             *)
(***************************************************************************)
DEFAULT_DPI == 300       \* img.info.get('dpi', (DEFAULT_DPI, DEFAULT_DPI))
PerPage == 3             \* range(0, len(all_keys), 3), range(3)

\* the values of config.json that generate_badge_pdf reads; lengths in mm
config ==
    [badge_front_prefix |-> badge_ \o SideChars["front"] \o <<"_">>,
     badge_back_prefix |-> badge_ \o SideChars["back"] \o <<"_">>,
     group_spacing_x |-> 10,
     group_spacing_y |-> 5,
     start_y_position |-> 20,
     badge_width |-> 54]

\* the characters of file names, in ascending order of their code points
CodePoints ==
    <<" ", "\"", "*", ".", "/", "0", "1", "2", "3", "4", "5", "6", "7", "8", "9", ":",
      "<", ">", "?", "A", "B", "C", "D", "E", "F", "G", "H", "I", "J", "K", "L", "M",
      "N", "O", "P", "Q", "R", "S", "T", "U", "V", "W", "X", "Y", "Z", "\\", "_",
      "a", "b", "c", "d", "e", "f", "g", "h", "i", "j", "k", "l", "m", "n", "o", "p",
      "q", "r", "s", "t", "u", "v", "w", "x", "y", "z", "|">>

ord(c) == CHOOSE i \in DOMAIN CodePoints : CodePoints[i] = c

\* s < t on str: the first differing character decides, a proper prefix is smaller
Less(s, t) ==
    LET differ == {i \in 1..Len(s) : i <= Len(t) /\ s[i] # t[i]}
    IN  IF differ = {}
        THEN Len(s) < Len(t)
        ELSE LET i == CHOOSE i \in differ : \A j \in differ : i <= j
             IN  ord(s[i]) < ord(t[i])

\* sorted(...) on a list of str
Unsorted(seq) == seq
sorted(seq) == SortSeq(seq, Less)

\* f[len(prefix):-4]
key_of(f, prefix) ==
    IF Len(f) - 4 <= Len(prefix) THEN <<>> ELSE SubSeq(f, Len(prefix) + 1, Len(f) - 4)

\* lines 210-211
prefixed_files(ls, prefix) == sorted(SelectSeq(ls, LAMBDA f : StartsWith(f, prefix)))
front_files(ls) == prefixed_files(ls, config.badge_front_prefix)
back_files(ls) == prefixed_files(ls, config.badge_back_prefix)

\* lines 214-215: a dict comprehension, where a later file replaces an earlier
\* file of the same key
files_dict(fs, prefix) ==
    [key \in {key_of(f, prefix) : f \in Range(fs)} |->
        fs[CHOOSE i \in DOMAIN fs :
              /\ key_of(fs[i], prefix) = key
              /\ \A j \in (i + 1)..Len(fs) : key_of(fs[j], prefix) # key]]
front_files_dict(ls) == files_dict(front_files(ls), config.badge_front_prefix)
back_files_dict(ls) == files_dict(back_files(ls), config.badge_back_prefix)

\* dict.keys(): the keys in the order in which they entered the dict
keys(fs, prefix) == [i \in DOMAIN fs |-> key_of(fs[i], prefix)]

\* the elements of a list without their repetitions, in order of first appearance
Distinct(seq) == Filter(seq, {i \in DOMAIN seq : \A j \in 1..(i - 1) : seq[j] # seq[i]})

\* line 218.  A set is iterated in an order the language leaves open; here it
\* is the order in which the keys entered the two dicts.
all_keys(ls) ==
    sorted(Distinct(keys(front_files(ls), config.badge_front_prefix)
                    \o keys(back_files(ls), config.badge_back_prefix)))

\* lines 204-218: the locals of generate_badge_pdf when the loops begin
Locals(ls) ==
    [files |-> ls,
     front_files_dict |-> front_files_dict(ls),
     back_files_dict |-> back_files_dict(ls),
     all_keys |-> all_keys(ls)]

\* The image stored under a file name: the fronts carry their resolution and
\* differ in height, the backs carry none.
ImageOf(f) ==
    IF StartsWith(f, config.badge_front_prefix)
    THEN [width |-> 540, height |-> 800 + 20 * (Len(f) % 4), info |-> [dpi |-> 254]]
    ELSE [width |-> 1500, height |-> 3000, info |-> <<>>]

\* lines 37-48: (pixels / dpi) * 25.4, on images whose sizes are whole millimetres
get_image_dimensions(img) ==
    LET dpi == Get(img.info, "dpi", DEFAULT_DPI)
    IN  [width_mm |-> (img.width * 254) \div (dpi * 10),
         height_mm |-> (img.height * 254) \div (dpi * 10)]

\* pdf.image(path, x=, y=, w=, h=)
Image(path, x, y) ==
    [path |-> path, x |-> x, y |-> y,
     w |-> get_image_dimensions(ImageOf(path)).width_mm,
     h |-> get_image_dimensions(ImageOf(path)).height_mm]

\* line 231
x_pos(j) == (config.badge_width + config.group_spacing_x) * j + config.group_spacing_x

\* line 242: y_pos += front_height_mm + group_spacing_y
SameRow(y, front) == y
NextRow(y, front) == y + front.h + config.group_spacing_y

\* lines 227-251: the images of the key at position n = i + j, where `env`
\* names the image that cannot be opened or placed, if any
Slot(locals, n, env) ==
    LET key == locals.all_keys[n + 1]
        j == n % PerPage
        y_pos == config.start_y_position
        has_front == key \in DOMAIN locals.front_files_dict
        has_back == key \in DOMAIN locals.back_files_dict
        front == Image(locals.front_files_dict[key], x_pos(j), y_pos)
        back == Image(locals.back_files_dict[key], x_pos(j),
                      IF has_front THEN NextRow(y_pos, front) ELSE y_pos)
        front_fails == has_front /\ env = "front"
        back_fails == has_back /\ env = "back" /\ ~front_fails
    IN  [key |-> key,
         j |-> j,
         images |-> (IF has_front /\ ~front_fails THEN <<front>> ELSE <<>>)
                    \o (IF has_back /\ ~front_fails /\ ~back_fails THEN <<back>> ELSE <<>>),
         raised |-> front_fails \/ back_fails]

\* lines 221-222: a page is added before the first key of every group
NewPageAlways(n) == TRUE
NewPage(n) == n % PerPage = 0

\* the slot goes on the current page of the FPDF object
AddSlot(pages, n, slot) ==
    IF NewPage(n) \/ pages = <<>>
    THEN Append(pages, <<slot>>)
    ELSE [pages EXCEPT ![Len(pages)] = Append(@, slot)]

At(at, n) == [at |-> at, n |-> n]

\* lines 621-634: the button starts the thread that runs generate_badge_pdf
generate_pdf_action ==
    /\ pdfpc = At("idle", 0)
    /\ pdfpc' = At("listdir", 0)
    /\ UNCHANGED <<files, gui_queue, shown, clicks, threads, last, log, log_dir>>
    /\ UNCHANGED batchVars
    /\ UNCHANGED <<preset_store, folder_exists, listing, pdf, document, call>>

\* lines 263-264, 629-631: the exception ends the run and becomes a notification
WrittenSoFar(doc, pages) == [written |-> TRUE, pages |-> pages]
Unwritten(doc, pages) == doc

PdfFails(text, pages) ==
    /\ gui_queue' = gui_queue \o <<Note("showerror", "Error", <<"Failed to generate PDF">> \o text)>>
    /\ pdfpc' = At("done", pdfpc.n)
    /\ document' = Unwritten(document, pages)

\* os.listdir returns the names in any order
Orders(S) ==
    {ls \in [1..Cardinality(S) -> S] : \A i, j \in 1..Cardinality(S) : ls[i] = ls[j] => i = j}

MaxPermuted == 3    \* files of a folder listed in every order

RECURSIVE SetToSeq(_)
SetToSeq(S) ==
    IF S = {} THEN <<>>
    ELSE LET x == CHOOSE x \in S : TRUE IN <<x>> \o SetToSeq(S \ {x})

Reverse(seq) == [i \in DOMAIN seq |-> seq[Len(seq) + 1 - i]]

\* the orders in which a folder is listed: every order of a small folder, the
\* ascending and the descending order of a larger one
Listings(S) ==
    IF Cardinality(S) <= MaxPermuted
    THEN Orders(S)
    ELSE {SortSeq(SetToSeq(S), Less), Reverse(SortSeq(SetToSeq(S), Less))}

\* lines 204-208
list_folder ==
    /\ pdfpc = At("listdir", 0)
    /\ IF folder_exists
       THEN /\ \E ls \in Listings(files) : listing' = Locals(ls)
            /\ pdfpc' = At("loop", 0)
            /\ UNCHANGED <<gui_queue, document>>
       ELSE /\ PdfFails(<<"Badge folder does not exist">>, <<>>)
            /\ listing' = listing
    /\ pdf' = <<>>
    /\ UNCHANGED <<files, shown, clicks, threads, last, log, log_dir>>
    /\ UNCHANGED batchVars
    /\ UNCHANGED <<preset_store, folder_exists, call>>

\* lines 221-251: one pass of the inner loop
place_key ==
    /\ pdfpc.at = "loop"
    /\ pdfpc.n < Len(listing.all_keys)
    /\ \E env \in {"ok", "front", "back"} :
          LET slot == Slot(listing, pdfpc.n, env)
          IN  /\ pdf' = AddSlot(pdf, pdfpc.n, slot)
              /\ IF slot.raised
                 THEN PdfFails(<<"Failed to insert image", env, slot.key>>, pdf')
                 ELSE /\ pdfpc' = At("loop", pdfpc.n + 1)
                      /\ UNCHANGED <<gui_queue, document>>
    /\ UNCHANGED <<files, shown, clicks, threads, last, log, log_dir>>
    /\ UNCHANGED batchVars
    /\ UNCHANGED <<preset_store, folder_exists, listing, call>>

\* lines 253-262, 627-628: the file is written when the loops have ended
Output(pages) == [written |-> TRUE, pages |-> pages]

output_pdf ==
    /\ pdfpc.at = "loop"
    /\ pdfpc.n = Len(listing.all_keys)
    /\ \E env \in {"ok", "save"} :
          IF env = "ok"
          THEN /\ document' = Output(pdf)
               /\ gui_queue' = gui_queue \o <<Note("showinfo", "Success", <<"PDF successfully generated">>)>>
               /\ pdfpc' = At("done", pdfpc.n)
          ELSE PdfFails(<<"Failed to save PDF">>, pdf)
    /\ UNCHANGED <<files, shown, clicks, threads, last, log, log_dir>>
    /\ UNCHANGED batchVars
    /\ UNCHANGED <<preset_store, folder_exists, listing, pdf, call>>

(***************************************************************************)
(* The compositor alone, on folders of every shape: up to MaxKeys keys in  *)
(* an order that is not the sorted one, a key with only a front file, a    *)
(* key with only a back file, a file that is no badge, two front files of  *)
(* one key, a folder that does not exist.                                  *)
(***************************************************************************)
MaxKeys == 7        \* keys in a folder

KeyNames ==
    <<<<"7">>, <<"1", "0">>, <<"2">>, <<"1", "0", "2", "3">>, <<"a", "_", "7">>,
      <<"3">>, <<"A">>, <<"b">>, <<"1">>>>

jpg == <<".", "j", "p", "g">>
FrontFile(key) == config.badge_front_prefix \o key \o png
BackFile(key) == config.badge_back_prefix \o key \o png

Strays ==
    {{}, {<<"n", "o", "t", "e", "s", ".", "t", "x", "t">>},
     {config.badge_front_prefix \o KeyNames[1] \o jpg}}

Folder(n, only_front, only_back, stray) ==
    {FrontFile(KeyNames[i]) : i \in (1..n) \ only_back}
        \cup {BackFile(KeyNames[i]) : i \in (1..n) \ only_front}
        \cup stray

Folders ==
    {Folder(n, only_front, only_back, stray) :
        n \in 0..MaxKeys,
        only_front \in {{}} \cup {{i} : i \in 1..MaxKeys},
        only_back \in {{}} \cup {{i} : i \in 1..MaxKeys},
        stray \in Strays}

InitPdf ==
    /\ files \in Folders
    /\ folder_exists \in BOOLEAN
    /\ folder_exists \/ files = {}
    /\ gui_queue = <<>>
    /\ shown = <<>>
    /\ clicks = 0
    /\ threads = <<>>
    /\ last = [done |-> FALSE]
    /\ log = <<>>
    /\ log_dir = "error_logs"
    /\ Idle
    /\ preset_store = presets
    /\ listing = NoLocals
    /\ pdfpc = At("idle", 0)
    /\ pdf = <<>>
    /\ document = NoDocument
    /\ call = NoCall

NextPdf ==
    \/ generate_pdf_action
    \/ list_folder
    \/ place_key
    \/ output_pdf
    \/ process_gui_queue

SpecPdf == InitPdf /\ [][NextPdf]_vars

(***************************************************************************)
(* A batch of one record and the compositor side by side: the folder that  *)
(* the compositor lists is the folder the renders write to.                *)
(***************************************************************************)
PairIds ==
    {<<"7">>, <<"7", ".", "0">>, <<"a", "/", "7">>, <<"1", ":", "2", "*">>,
     <<"N", "o", ".", "9">>, <<"7", ".", "p", "n", "g">>}

PairSheets == {Sheet(<<GoodRow(id)>>) : id \in PairIds}

NextPair ==
    \/ batch_generate_badges(1)
    \/ task_validate(PairSheets)
    \/ \E k \in DOMAIN rowpc : process_row(k)
    \/ \E k \in DOMAIN rowpc : render_front(k)
    \/ \E k \in DOMAIN rowpc : render_back(k)
    \/ \E k \in DOMAIN rowpc : acquire(k)
    \/ \E k \in DOMAIN rowpc : append(k)
    \/ task_finish
    \/ generate_pdf_action
    \/ list_folder
    \/ place_key
    \/ output_pdf
    \/ process_gui_queue

SpecPair == InitBatch /\ [][NextPair]_vars

(***************************************************************************)
(* The two string helpers on their own: a text is handed to                *)
(* clean_employee_id or to sanitize_filename, and the result is handed to  *)
(* the same helper once more.                                              *)
(***************************************************************************)
MaxIdLen == 5       \* longest text handed to clean_employee_id
MaxFileLen == 3     \* longest text over the characters of file names

Texts(chars, n) == UNION {[1..k -> chars] : k \in 0..n}

IdChars == {"1", "0", ".", "a"}
FileChars == Range(illegal_chars) \cup {"a", "_", "."}
HelperTexts == Texts(IdChars, MaxIdLen) \cup Texts(FileChars, MaxFileLen)

InitHelpers ==
    /\ files = {}
    /\ gui_queue = <<>>
    /\ shown = <<>>
    /\ clicks = 0
    /\ threads = <<>>
    /\ last = [done |-> FALSE]
    /\ log = <<>>
    /\ log_dir = "error_logs"
    /\ Idle
    /\ preset_store = presets
    /\ folder_exists = TRUE
    /\ listing = NoLocals
    /\ pdfpc = At("idle", 0)
    /\ pdf = <<>>
    /\ document = NoDocument
    /\ call \in {[op |-> "none", arg |-> text, results |-> <<>>] : text \in HelperTexts}

\* the helper is applied to the text, and then to what it returned
CanCall(op) == call.op \in {"none", op} /\ Len(call.results) < 2
Argument == IF call.results = <<>> THEN call.arg ELSE call.results[Len(call.results)]
Called(op, result) == [op |-> op, arg |-> call.arg, results |-> Append(call.results, result)]

call_clean_employee_id ==
    /\ CanCall("clean_employee_id")
    /\ call' = Called("clean_employee_id", clean_employee_id(Argument))
    /\ UNCHANGED <<files, gui_queue, shown, clicks, threads, last, log, log_dir>>
    /\ UNCHANGED batchVars
    /\ UNCHANGED <<preset_store, pdfVars>>

call_sanitize_filename ==
    /\ CanCall("sanitize_filename")
    /\ call' = Called("sanitize_filename", sanitize_filename(Argument))
    /\ UNCHANGED <<files, gui_queue, shown, clicks, threads, last, log, log_dir>>
    /\ UNCHANGED batchVars
    /\ UNCHANGED <<preset_store, pdfVars>>

NextHelpers == call_clean_employee_id \/ call_sanitize_filename

SpecHelpers == InitHelpers /\ [][NextHelpers]_vars

(***************************************************************************)
(* The two builders of a record on their own: for one loaded config.json,  *)
(* one preset, one side and one set of field values, the batch path builds *)
(* the record of a row holding the values, and the callback of the         *)
(* Generate button builds the record of entries holding the same values.   *)
(***************************************************************************)
Fields == <<"name", "id", "department", "position">>

\* line 576: the presets of a config.json, which may hold any key
LoadedPresets ==
    {presets,
     [presets EXCEPT !["standard"]["front"] = Update(@, [department |-> <<"X">>])],
     [presets EXCEPT !["compact"]["back"] = Update(@, [id |-> <<"N", "o", ".", " ", "1">>])]}

FieldValues ==
    [side : Sides, preset : PresetNames,
     name : {<<"a", "b">>, <<" ", "a", " ", "b">>},
     id : {<<"7">>, <<" ", "7">>, <<"7", ".", "0">>, <<"a", "7">>},
     department : {<<"D">>, <<"D", " ">>},
     position : {<<"P">>}]

InitRecord ==
    /\ files = {}
    /\ gui_queue = <<>>
    /\ shown = <<>>
    /\ clicks = 0
    /\ threads = <<>>
    /\ last = [done |-> FALSE]
    /\ log = <<>>
    /\ log_dir = "error_logs"
    /\ Idle
    /\ preset_store \in LoadedPresets
    /\ folder_exists = TRUE
    /\ listing = NoLocals
    /\ pdfpc = At("idle", 0)
    /\ pdf = <<>>
    /\ document = NoDocument
    /\ call \in {[op |-> "none", arg |-> values, results |-> <<>>] : values \in FieldValues}

Built(path) == \E k \in DOMAIN call.results : call.results[k].path = path
RecordOf(path) ==
    call.results[CHOOSE k \in DOMAIN call.results : call.results[k].path = path].data
Build(path, data) ==
    [op |-> "record", arg |-> call.arg,
     results |-> Append(call.results, [path |-> path, data |-> data])]

\* lines 440-510: the row that holds the values in the columns of both sides
RowOf(values) ==
    Row(values.name, values.name, values.id, values.department, values.position,
        values.department, values.position)

\* lines 343-360: the entries that hold the values, the photo entry empty
EntriesHolding(values) ==
    [name |-> values.name, id |-> values.id, department |-> values.department,
     position |-> values.position, photo_img |-> <<>>]

process_row_record ==
    /\ ~Built("batch")
    /\ LET row == RowOf(call.arg)
           employee_id == clean_employee_id(Strip(astype_str(row["Employee Number"])))
       IN  call' = Build("batch", batch_data(call.arg.side, call.arg.preset, row, employee_id))
    /\ UNCHANGED <<files, gui_queue, shown, clicks, threads, last, log, log_dir>>
    /\ UNCHANGED batchVars
    /\ UNCHANGED <<preset_store, pdfVars>>

generate_record ==
    /\ ~Built("interactive")
    /\ call' = Build("interactive",
                     generate_data(call.arg.side, call.arg.preset, EntriesHolding(call.arg)))
    /\ UNCHANGED <<files, gui_queue, shown, clicks, threads, last, log, log_dir>>
    /\ UNCHANGED batchVars
    /\ UNCHANGED <<preset_store, pdfVars>>

NextRecord == process_row_record \/ generate_record

SpecRecord == InitRecord /\ [][NextRecord]_vars

(***************************************************************************)
(* Properties.                                                             *)
(***************************************************************************)
\* the task got past the column and preset checks, ran the rows and reported
PastChecks == taskpc = "done" /\ outcome.path \in {"failure", "success"}

\* the entries of the error list that name row k of the sheet
EntriesOf(k) == SelectSeq(errors, LAMBDA e : e.row = k + 1)

\* an Employee Number cell as the specification normalizes it: trimmed, and
\* without a trailing ".0" that follows only digits
Normalized(value) == clean_employee_id(Strip(astype_str(value)))

\* the required fields of a row that are null, or empty once trimmed
MissingSet(row) ==
    {c \in Range(required_columns) :
        row[c] = NaN \/ \A i \in DOMAIN row[c] : row[c][i] \in Whitespace}

\* C1: in a batch run, every row whose Employee Number normalizes to the same
\* value as that of another row has an error entry of its own in the final
\* error list and has no badge rendered, the first such row included.
C1_DuplicateRowsRejected ==
    PastChecks =>
        \A i, j \in DOMAIN df.rows :
            (i # j /\ Normalized(df.rows[i]["Employee Number"])
                      = Normalized(df.rows[j]["Employee Number"]))
            => (Len(EntriesOf(i)) = 1 /\ written[i] = {})

\* C2: a batch run processes every row once, whatever happens to the others:
\* at the end every row has finished, a row that did not produce both of its
\* badges has exactly one error entry, which names it, a row that did has
\* none, and every entry of the list is the duplicates message or names a row.
C2_EveryRowProcessedOnce ==
    PastChecks =>
        /\ \A k \in DOMAIN df.rows :
              /\ rowpc[k] = "done"
              /\ Len(EntriesOf(k)) = IF Cardinality(written[k]) = 2 THEN 0 ELSE 1
        /\ \A i \in DOMAIN errors :
              \/ errors[i].row = 0 /\ errors[i].kind = "duplicates" /\ i = 1
              \/ errors[i].row - 1 \in DOMAIN df.rows

\* a row failed in its render and the row after it produced both badges
C2_Witness ==
    /\ PastChecks
    /\ Len(df.rows) = 2
    /\ Len(EntriesOf(1)) = 1
    /\ EntriesOf(1)[1].kind = "failed"
    /\ Cardinality(written[2]) = 2

\* C3: for every row with one or more of the seven required fields missing,
\* the final error list holds exactly one entry for the row, the entry lists
\* exactly the missing fields, each once, and the row renders no badge.
C3_MissingFieldsReported ==
    PastChecks =>
        \A k \in DOMAIN df.rows :
            MissingSet(df.rows[k]) # {} =>
                /\ Len(EntriesOf(k)) = 1
                /\ EntriesOf(k)[1].kind = "missing"
                /\ Range(EntriesOf(k)[1].what) = MissingSet(df.rows[k])
                /\ Len(EntriesOf(k)[1].what) = Cardinality(MissingSet(df.rows[k]))
                /\ written[k] = {}

\* a row with four of its fields missing has been reported
C3_Witness ==
    /\ PastChecks
    /\ Len(df.rows) = 1
    /\ Cardinality(MissingSet(df.rows[1])) = 4
    /\ Len(errors) = 1
    /\ Len(errors[1].what) = 4

\* C4: a batch run that got past the column and preset checks ends in exactly
\* one of two ways: with a non-empty error list the error log is written
\* with it and the failure summary is queued (and no success notification),
\* with an empty list the success notification is queued (and no failure
\* summary) and the log is not written.
C4_ExactlyOneOutcome ==
    PastChecks =>
        IF errors # <<>>
        THEN /\ outcome.wrote
             /\ log = errors
             /\ FailureSummary \in Range(outcome.puts)
             /\ SuccessSummary \notin Range(outcome.puts)
        ELSE /\ ~outcome.wrote
             /\ SuccessSummary \in Range(outcome.puts)
             /\ FailureSummary \notin Range(outcome.puts)

\* C5: the outcome of a batch is decided only after every submitted row has
\* finished: once the task has reported, no row is queued or running, and no
\* step adds to the error list or moves a row.
C5_DecidedAfterAllRows ==
    /\ [](taskpc = "done" => \A k \in DOMAIN rowpc : rowpc[k] = "done")
    /\ [][(taskpc = "done" /\ taskpc' = "done") => (errors' = errors /\ rowpc' = rowpc)]_vars

\* the task has reported errors on a sheet of two rows
C5_Witness ==
    /\ PastChecks
    /\ Len(df.rows) = 2
    /\ Len(errors) = 2
    /\ outcome.path = "failure"

\* C6: if the sheet lacks required columns the batch aborts before any row
\* is submitted: exactly one notification names the missing columns, all of
\* them, no row is validated or rendered and no badge file is written.
C6_MissingColumnsAbort ==
    (df.readable /\ Range(required_columns) \ df.columns # {}) =>
        /\ taskpc = "done"
        /\ outcome.path = "missing_columns"
        /\ rowpc = <<>> /\ written = <<>> /\ errors = <<>>
        /\ files = {}
        /\ Len(SelectSeq(shown \o gui_queue,
                         LAMBDA n : Range(n.text) = Range(required_columns) \ df.columns)) = 1
        /\ \A i \in DOMAIN outcome.puts :
              outcome.puts[i].text # <<"Failed to write to error log">>
              => Range(outcome.puts[i].text) = Range(required_columns) \ df.columns

\* a sheet without two of the columns has been refused and the user told
C6_Witness ==
    /\ df.readable
    /\ Range(required_columns) \ df.columns = {"Local Name", "Department"}
    /\ taskpc = "done"
    /\ shown # <<>>

\* C7: one call of the renderer writes exactly one image file when it
\* succeeds and leaves the output folder as it was when it fails at any step.
C7_OneFileOrNone ==
    [][Len(threads') < Len(threads) =>
          IF last'.result.failure = "none"
          THEN /\ Cardinality(last'.result.saved) = 1
               /\ files' = files \cup last'.result.saved
          ELSE files' = files]_vars

\* a render whose fonts could not be loaded has ended and the folder is empty
C7_Witness ==
    /\ last.done
    /\ last.result.failure = "font"
    /\ "first_name" \in DOMAIN last.result.data
    /\ files = {}

\* C8: no single-record render ends without a report: on the interactive
\* path every render queues one notification, a success or an error.
C8_EveryRenderReported ==
    last.done =>
        /\ Len(last.result.put) = 1
        /\ last.result.put[1].kind = IF last.result.failure = "none"
                                     THEN "showinfo" ELSE "showerror"

\* C9: a name longer than the template's limit that holds a space is split
\* at its first space and the text elements become first_name, last_name,
\* id, department, position; one without a space fails the render, which
\* writes no file; a name within the limit is not split and the text
\* elements are name, id, department, position.
C9_NameSplit ==
    last.done =>
        LET name == last.input["name"]
            limit == Get(last.input, "name_char_limit", DefaultCharLimit)
            d == last.result.data
            elements == Get(d, "text_elements", <<>>)
        IN  /\ (Len(name) > limit /\ HasSpace(name)) =>
                  /\ elements = <<"first_name", "last_name", "id", "department", "position">>
                  /\ {"first_name", "last_name"} \subseteq DOMAIN d
                  /\ d["first_name"] \o <<" ">> \o d["last_name"] = name
                  /\ ~HasSpace(d["first_name"])
            /\ (Len(name) > limit /\ ~HasSpace(name)) =>
                  /\ last.result.failure = "name"
                  /\ last.result.saved = {}
            /\ Len(name) <= limit =>
                  /\ elements = <<"name", "id", "department", "position">>
                  /\ "first_name" \notin DOMAIN d
                  /\ "last_name" \notin DOMAIN d

\* "Jonathan Smith" has been split under the default limit of 10
C9_Witness ==
    /\ last.done
    /\ Len(last.input["name"]) = 14
    /\ "name_char_limit" \notin DOMAIN last.input
    /\ last.result.data["first_name"] = <<"J", "o", "n", "a", "t", "h", "a", "n">>
    /\ last.result.data["last_name"] = <<"S", "m", "i", "t", "h">>

JoinKeys(S) ==
    {key_of(f, config.badge_front_prefix) : f \in {g \in S : StartsWith(g, config.badge_front_prefix)}}
        \cup {key_of(f, config.badge_back_prefix) : f \in {g \in S : StartsWith(g, config.badge_back_prefix)}}

\* the position of a key in the ascending order of a set of keys, from zero
Position(key, K) == Cardinality({q \in K : Less(q, key)})

\* C11: a written document of n join keys has ceil(n/3) pages; the key at
\* sorted position k is in slot k mod 3 of page floor(k/3), and nowhere else,
\* also when only one of its two images exists.
C11_ThreeKeysPerPage ==
    document.written =>
        LET K == JoinKeys(files)
            n == Cardinality(K)
            pages == document.pages
            At3(key) == {<<p, q>> \in (DOMAIN pages) \X (1..3) :
                            q \in DOMAIN pages[p] /\ pages[p][q].key = key}
        IN  /\ Len(pages) = (n + 2) \div 3
            /\ \A p \in DOMAIN pages : Len(pages[p]) \in 1..3
            /\ \A p \in DOMAIN pages : \A q \in DOMAIN pages[p] :
                  pages[p][q].key \in K /\ pages[p][q].j = q - 1
            /\ \A key \in K :
                  At3(key) = {<<(Position(key, K) \div 3) + 1, (Position(key, K) % 3) + 1>>}

\* seven keys on pages of three, three and one, one of the keys with a single image
C11_Witness ==
    /\ document.written
    /\ Cardinality(JoinKeys(files)) = 7
    /\ Len(document.pages) = 3
    /\ Len(document.pages[1]) = 3
    /\ Len(document.pages[2]) = 3
    /\ Len(document.pages[3]) = 1
    /\ \E p \in DOMAIN document.pages : \E q \in DOMAIN document.pages[p] :
          Len(document.pages[p][q].images) = 1

\* the slots of a document in reading order
RECURSIVE Flat(_)
Flat(pages) == IF pages = <<>> THEN <<>> ELSE Head(pages) \o Flat(Tail(pages))

\* the file of a folder that a key stands for under a prefix: of several files
\* of one key the greatest name
FileOf(S, prefix, key) ==
    LET same == {f \in S : StartsWith(f, prefix) /\ key_of(f, prefix) = key}
    IN  {f \in same : \A g \in same : g = f \/ Less(g, f)}

\* C12: the slots of a written document hold the join keys of the folder in
\* ascending lexicographic order, each with the files that the set of file
\* names determines, whatever the order in which the folder was listed.
C12_OrderFromFileNames ==
    document.written =>
        LET slots == Flat(document.pages)
        IN  /\ {slots[i].key : i \in DOMAIN slots} = JoinKeys(files)
            /\ \A i \in DOMAIN slots : \A k \in DOMAIN slots :
                  i < k => Less(slots[i].key, slots[k].key)
            /\ \A i \in DOMAIN slots :
                  {slots[i].images[k].path : k \in DOMAIN slots[i].images}
                      = FileOf(files, config.badge_front_prefix, slots[i].key)
                          \cup FileOf(files, config.badge_back_prefix, slots[i].key)

\* a folder listed in descending order whose keys 10, 2, 7 come out in that order
C12_Witness ==
    /\ document.written
    /\ Len(listing.files) > MaxPermuted
    /\ listing.files = Reverse(SortSeq(listing.files, Less))
    /\ LET slots == Flat(document.pages)
       IN  [i \in DOMAIN slots |-> slots[i].key] = <<<<"1", "0">>, <<"2">>, <<"7">>>>

IsFront(image) == StartsWith(image.path, config.badge_front_prefix)

\* C13: on every page the images of slot j are at x = j * (badge width +
\* column gap) + column gap; a front image is at the top margin; a back image
\* is below the front image of its slot, at top margin + front height + row
\* gap, and at the top margin when its slot has no front image.
C13_SlotGeometry ==
    \A p \in DOMAIN pdf : \A q \in DOMAIN pdf[p] :
        LET images == pdf[p][q].images
            fronts == {k \in DOMAIN images : IsFront(images[k])}
        IN  \A k \in DOMAIN images :
                /\ images[k].x = (q - 1) * (config.badge_width + config.group_spacing_x)
                                    + config.group_spacing_x
                /\ IsFront(images[k]) => images[k].y = config.start_y_position
                /\ ~IsFront(images[k]) =>
                      IF fronts = {}
                      THEN images[k].y = config.start_y_position
                      ELSE \A f \in fronts :
                              images[k].y = config.start_y_position + images[f].h
                                               + config.group_spacing_y

\* a page whose third slot holds a front and a back image and another slot of
\* which holds a back image alone
C13_Witness ==
    \E p \in DOMAIN pdf :
        /\ Len(pdf[p]) = 3
        /\ Len(pdf[p][3].images) = 2
        /\ IsFront(pdf[p][3].images[1])
        /\ pdf[p][3].images[2].y > pdf[p][3].images[1].y
        /\ \E q \in 1..2 : Len(pdf[p][q].images) = 1 /\ ~IsFront(pdf[p][q].images[1])

\* the badge files of a folder that the compositor places
Placeable(S) ==
    UNION {FileOf(S, config.badge_front_prefix, key)
               \cup FileOf(S, config.badge_back_prefix, key) : key \in JoinKeys(S)}

\* the compositor has ended by an exception
PdfFailed ==
    /\ pdfpc.at = "done"
    /\ \/ ~folder_exists
       \/ \E i \in DOMAIN Flat(pdf) : Flat(pdf)[i].raised
       \/ \E i \in DOMAIN gui_queue : gui_queue[i].kind = "showerror"
       \/ \E i \in DOMAIN shown : shown[i].kind = "showerror"

\* C15: a run that ends by an exception (no folder, an image that cannot be
\* measured or placed) writes no document, and a written document holds every
\* image of every key: it is written after the last of them was placed.
C15_AllOrNothing ==
    /\ PdfFailed => ~document.written
    /\ document.written =>
          /\ pdfpc = At("done", Cardinality(JoinKeys(files)))
          /\ document.pages = pdf
          /\ \A i \in DOMAIN Flat(pdf) : ~Flat(pdf)[i].raised
          /\ UNION {{slot.images[k].path : k \in DOMAIN slot.images} : slot \in Range(Flat(pdf))}
                = Placeable(files)

\* the back image of the fifth key fails after its front image and four keys
\* were placed, and nothing is written
C15_Witness ==
    /\ PdfFailed
    /\ Len(Flat(pdf)) = 5
    /\ Flat(pdf)[5].raised
    /\ Len(Flat(pdf)[5].images) = 1
    /\ ~document.written

\* C14: the front and the back render of one record save
\* badge_front_<safeId>.png and badge_back_<safeId>.png, where <safeId> is the
\* sanitized identifier; the key that the compositor derives from either name
\* is <safeId>, and a document made from a folder that holds both files has
\* them in one slot under that key.
C14_FilesPairUnderOneKey ==
    \A k \in DOMAIN written :
        Cardinality(written[k]) = 2 =>
            LET safeId == sanitize_filename(Normalized(df.rows[k]["Employee Number"]))
                front == <<"b", "a", "d", "g", "e", "_", "f", "r", "o", "n", "t", "_">>
                            \o safeId \o <<".", "p", "n", "g">>
                back == <<"b", "a", "d", "g", "e", "_", "b", "a", "c", "k", "_">>
                           \o safeId \o <<".", "p", "n", "g">>
                slots == Flat(document.pages)
            IN  /\ written[k] = {front, back}
                /\ key_of(front, config.badge_front_prefix) = safeId
                /\ key_of(back, config.badge_back_prefix) = safeId
                /\ document.written /\ {front, back} \subseteq Range(listing.files) =>
                      /\ Cardinality({i \in DOMAIN slots : slots[i].key = safeId}) = 1
                      /\ \A i \in DOMAIN slots :
                            slots[i].key = safeId =>
                                [n \in DOMAIN slots[i].images |-> slots[i].images[n].path]
                                    = <<front, back>>

\* the record a/7 leaves badge_front_a_7.png and badge_back_a_7.png, and the
\* written document pairs them in one slot
C14_Witness ==
    /\ document.written
    /\ \E k \in DOMAIN written :
          /\ df.rows[k]["Employee Number"] = <<"a", "/", "7">>
          /\ Cardinality(written[k]) = 2
    /\ \E i \in DOMAIN Flat(document.pages) :
          /\ Flat(document.pages)[i].key = <<"a", "_", "7">>
          /\ Len(Flat(document.pages)[i].images) = 2

\* a non-empty string of decimal digits
DigitString(s) == s # <<>> /\ \A i \in DOMAIN s : s[i] \in {"0", "1", "2", "3", "4", "5", "6", "7", "8", "9"}

\* C16: normalizing d.0, for a non-empty digit string d, gives d; every other
\* string comes back unchanged; and normalizing the result again changes nothing.
C16_NormalizeOnceIsEnough ==
    call.op = "clean_employee_id" =>
        LET x == call.arg
            n == Len(x)
            integral == /\ n >= 3
                        /\ x[n - 1] = "." /\ x[n] = "0"
                        /\ DigitString(SubSeq(x, 1, n - 2))
        IN  /\ integral => call.results[1] = SubSeq(x, 1, n - 2)
            /\ ~integral => call.results[1] = x
            /\ Len(call.results) = 2 => call.results[2] = call.results[1]

\* 10.0 became 10 and stayed 10
C16_Witness ==
    /\ call.op = "clean_employee_id"
    /\ call.arg = <<"1", "0", ".", "0">>
    /\ call.results = <<<<"1", "0">>, <<"1", "0">>>>

\* C17: sanitizing puts an underscore in the place of each of the nine
\* illegal characters and leaves every other character where it is: the result
\* is as long as the input, holds no illegal character, and sanitizing it
\* again changes nothing.
C17_SanitizeInPlace ==
    call.op = "sanitize_filename" =>
        LET illegal == {"<", ">", ":", "\"", "/", "\\", "|", "?", "*"}
            x == call.arg
            y == call.results[1]
        IN  /\ Len(y) = Len(x)
            /\ \A i \in DOMAIN x : y[i] = IF x[i] \in illegal THEN "_" ELSE x[i]
            /\ \A i \in DOMAIN y : y[i] \notin illegal
            /\ Len(call.results) = 2 => call.results[2] = y

\* a/* became a__ and stayed a__
C17_Witness ==
    /\ call.op = "sanitize_filename"
    /\ call.arg = <<"a", "/", "*">>
    /\ call.results = <<<<"a", "_", "_">>, <<"a", "_", "_">>>>

\* how often a value occurs in a list
Count(seq, x) == Cardinality({i \in DOMAIN seq : seq[i] = x})

\* the rows that have left the block under errors_lock
Appended == {k \in DOMAIN rowpc : rowpc[k] = "done" /\ pending[k] # <<>>}

\* C18: at most one worker is between acquiring errors_lock and releasing it,
\* and it is the holder of the lock; the error list holds the batch-wide
\* duplicates message, if there is one, and the entry of every worker that has
\* appended, each once and nothing else.
C18_AppendsUnderLock ==
    /\ Cardinality({k \in DOMAIN rowpc : rowpc[k] = "locked"}) <= 1
    /\ \A k \in DOMAIN rowpc : rowpc[k] = "locked" <=> errors_lock = k
    /\ Len(errors) = Cardinality(Appended) + (IF duplicates # <<>> THEN 1 ELSE 0)
    /\ \A k \in Appended : Count(errors, pending[k][1]) = 1
    /\ duplicates # <<>> => Count(errors, DuplicateMessage(duplicates)) = 1

\* one worker has appended, one holds the lock
C18_Witness ==
    \E j \in DOMAIN rowpc : \E k \in DOMAIN rowpc :
        /\ rowpc[j] = "locked"
        /\ errors_lock = j
        /\ rowpc[k] = "done"
        /\ pending[k] # <<>>
        /\ Count(errors, pending[k][1]) = 1

IsPrefix(s, t) == Len(s) <= Len(t) /\ SubSeq(t, 1, Len(s)) = s

\* C19: a step of a thread other than the control thread only appends to the
\* notification queue and executes nothing; the notifications are executed by
\* the control thread's drain, which takes the whole queue and executes it
\* from its head to its tail, the order in which it was filled.
C19_NotificationsInQueueOrder ==
    [][/\ shown' # shown => shown' = gui_queue /\ gui_queue' = <<>>
       /\ gui_queue' # gui_queue =>
             \/ gui_queue' = <<>> /\ shown' = gui_queue
             \/ IsPrefix(gui_queue, gui_queue') /\ shown' = shown]_vars

\* the compositor thread and the batch task thread each queued a notification,
\* and the control thread executed them in that order
C19_Witness ==
    /\ shown = <<Note("showinfo", "Success", <<"PDF successfully generated">>), SuccessSummary>>
    /\ gui_queue = <<>>

\* the keys that a click and a render put into a record
RecordKeys ==
    {"name", "id", "department", "position", "photo_img", "first_name", "last_name",
     "text_elements"}

SummaryQueued ==
    /\ taskpc = "done"
    /\ outcome.path \in {"failure", "success"}
    /\ \E i \in DOMAIN outcome.puts : outcome.puts[i] \in {FailureSummary, SuccessSummary}

\* every row has a render of both sides or an entry in the error list
EveryRowEnded ==
    \A k \in DOMAIN rowpc :
        /\ rowpc[k] = "done"
        /\ Cardinality(written[k]) = 2 \/ EntriesOf(k) # <<>>

\* C21: a batch whose rows were handed to the pool is never taken back (no
\* step un-submits it or returns a finished row to work), every row ends,
\* and the summary notification is queued.
C21_BatchRunsToCompletion ==
    /\ [][taskpc = "waiting" =>
             /\ taskpc' \in {"waiting", "done"}
             /\ DOMAIN rowpc' = DOMAIN rowpc
             /\ \A k \in DOMAIN rowpc : rowpc[k] = "done" => rowpc'[k] = "done"]_vars
    /\ (taskpc = "waiting") ~> (EveryRowEnded /\ SummaryQueued)

\* a batch of two rows has ended with its summary queued
C21_Witness ==
    /\ Len(rowpc) = 2
    /\ EveryRowEnded
    /\ SummaryQueued
    /\ \E k \in DOMAIN rowpc : written[k] # {}
    /\ errors # <<>>

\* C22: within one batch run no file is written by the renders of two rows.
C22_NoSharedOutputFile ==
    \A j \in DOMAIN written : \A k \in DOMAIN written :
        j # k => written[j] \cap written[k] = {}

\* C23: a row that has ended left both of its badge files and no error entry,
\* or an error entry and no badge file.
C23_BothFilesOrAnEntry ==
    \A k \in DOMAIN rowpc :
        rowpc[k] = "done" =>
            \/ Cardinality(written[k]) = 2 /\ EntriesOf(k) = <<>>
            \/ written[k] = {} /\ EntriesOf(k) # <<>>

\* C24: for one preset, one side and one set of field values, the record of
\* the batch path holds the row's own name, 'No. ' + normalized number,
\* department and position, and the record of the interactive path holds the
\* same four values.
C24_SameRecordOnBothPaths ==
    /\ Built("batch") =>
          /\ RecordOf("batch")["name"] = Strip(call.arg.name)
          /\ RecordOf("batch")["id"] = No \o <<" ">> \o clean_employee_id(Strip(call.arg.id))
          /\ RecordOf("batch")["department"] = Strip(call.arg.department)
          /\ RecordOf("batch")["position"] = Strip(call.arg.position)
    /\ Built("batch") /\ Built("interactive") =>
          \A k \in DOMAIN Fields :
              RecordOf("batch")[Fields[k]] = RecordOf("interactive")[Fields[k]]

====
